---- MODULE Spec2Model ----
(***************************************************************************)
(* Model of the lambda-expression evaluation server of main.go: the        *)
(* connection handlers (handleConnection), the stack parser                *)
(* (parseLambdaExpression), substitute, Evaluate and String.               *)
(*                                                                         *)
(* A Go string is a sequence of one-character strings.  A value held in an *)
(* interface (a stack entry, a term) is a record whose field k names its   *)
(* kind; for a term, ptr tells whether the interface holds a pointer to    *)
(* the struct or the struct value itself, because the type switches of     *)
(* Evaluate and substitute distinguish the two.                            *)
(*                                                                         *)
(* Spec is the server with its connections, SpecEval one evaluate request  *)
(* over every small input with the parser taken step by step, SpecTerm     *)
(* substitute and Evaluate applied on their own to every small term.       *)
(***************************************************************************)
EXTENDS Integers, Sequences, FiniteSets, TLC

\* ---------------------------------------------------------------- bounds
NumConns == 2      \* connections the clients open
MaxReq == 2        \* requests decoded by the server, over all connections
MaxLen == 5        \* tokens of an expression in the exhaustive input set
MaxNil == 2        \* nil entries kept in args before the model saturates
MaxSize == 6       \* nodes of a term handed to Evaluate on its own
MaxSubst == 3      \* nodes of a term handed to substitute on its own
MaxValue == 1      \* nodes of the value substituted
MaxSteps == 4      \* reductions of one evaluation the model follows

Conns == 1..NumConns
Ids == {1, 2}

\* --------------------------------------------------------------- strings
Str(c) == <<c>>
LP == Str("(")
RP == Str(")")
SP == " "

\* strings.Fields(expr): the maximal runs of non-space characters
RECURSIVE FieldsFrom(_, _, _, _)
FieldsFrom(s, i, cur, acc) ==
  IF i > Len(s)
  THEN IF cur = <<>> THEN acc ELSE Append(acc, cur)
  ELSE IF s[i] = SP
       THEN FieldsFrom(s, i + 1, <<>>, IF cur = <<>> THEN acc ELSE Append(acc, cur))
       ELSE FieldsFrom(s, i + 1, Append(cur, s[i]), acc)

Fields(s) == FieldsFrom(s, 1, <<>>, <<>>)

\* the text a client writes for a token sequence: tokens separated by a space
RECURSIVE Join(_)
Join(ts) ==
  IF ts = <<>> THEN <<>>
  ELSE IF Len(ts) = 1 THEN ts[1]
  ELSE ts[1] \o <<SP>> \o Join(Tail(ts))

\* ----------------------------------------------------------------- terms
PVariable(n) == [k |-> "variable", ptr |-> TRUE, name |-> n]
PApplication(l, r) == [k |-> "application", ptr |-> TRUE, left |-> l, right |-> r]
PAbstraction(p, b) == [k |-> "abstraction", ptr |-> TRUE, parameter |-> p, body |-> b]
Marker == [k |-> "("]
Nil == [k |-> "nil"]
Panic == [k |-> "panic"]

\* the type assertion x.(expression) succeeds
IsExpression(e) == e.k \in {"variable", "application", "abstraction"}

\* the struct value a pointer refers to, or the value itself
Value(t) == [t EXCEPT !.ptr = FALSE]

\* a bug: the parameter of an abstraction does not shadow the variable
RECURSIVE substituteShadowed(_, _, _)
substituteShadowed(expr, v, value) ==
  IF expr.k = "variable" /\ ~expr.ptr
  THEN IF expr.name = v THEN value ELSE expr
  ELSE IF expr.k = "abstraction" /\ expr.ptr
  THEN LET b == substituteShadowed(expr.body, v, value)
       IN IF b = Panic THEN Panic ELSE PAbstraction(expr.parameter, b)
  ELSE IF expr.k = "application" /\ expr.ptr
  THEN LET l == substituteShadowed(expr.left, v, value)
       IN IF l = Panic THEN Panic
          ELSE LET r == substituteShadowed(expr.right, v, value)
               IN IF r = Panic THEN Panic ELSE PApplication(l, r)
  ELSE Panic

RECURSIVE substitute(_, _, _)
substitute(expr, v, value) ==
  IF expr.k = "variable" /\ ~expr.ptr
  THEN IF expr.name = v THEN value ELSE expr
  ELSE IF expr.k = "abstraction" /\ expr.ptr
  THEN IF expr.parameter = v
       THEN expr
       ELSE LET b == substitute(expr.body, v, value)
            IN IF b = Panic THEN Panic ELSE PAbstraction(expr.parameter, b)
  ELSE IF expr.k = "application" /\ expr.ptr
  THEN LET l == substitute(expr.left, v, value)
       IN IF l = Panic THEN Panic
          ELSE LET r == substitute(expr.right, v, value)
               IN IF r = Panic THEN Panic ELSE PApplication(l, r)
  ELSE Panic

\* a bug: an Application in head position is evaluated before the dispatch
RECURSIVE EvaluateSpine(_)
EvaluateSpine(t) ==
  IF t.k = "application"
  THEN IF t.left.k = "abstraction" /\ t.left.ptr
       THEN LET s == substitute(t.left.body, t.left.parameter, t.right)
            IN IF s = Panic THEN Panic ELSE EvaluateSpine(s)
       ELSE IF t.left.k = "variable" /\ t.left.ptr
       THEN Value(t)
       ELSE IF t.left.k = "application"
       THEN LET l == EvaluateSpine(t.left)
            IN IF l = Panic THEN Panic
               ELSE [k |-> "application", ptr |-> FALSE, left |-> l, right |-> t.right]
       ELSE Panic
  ELSE Value(t)

\* a bug: the argument is evaluated before the head is inspected
RECURSIVE EvaluateEager(_)
EvaluateEager(t) ==
  IF t.k = "application"
  THEN IF t.left.k = "variable" /\ t.left.ptr
       THEN [k |-> "application", ptr |-> FALSE, left |-> t.left,
             right |-> Value(t.right)]
       ELSE Panic
  ELSE Value(t)

RECURSIVE Evaluate(_)
Evaluate(t) ==
  IF t.k = "application"
  THEN IF t.left.k = "abstraction" /\ t.left.ptr
       THEN LET s == substitute(t.left.body, t.left.parameter, t.right)
            IN IF s = Panic THEN Panic ELSE Evaluate(s)
       ELSE IF t.left.k = "variable" /\ t.left.ptr
       THEN Value(t)
       ELSE Panic
  ELSE Value(t)

\* a bug: a stuck application is handed to Evaluate again
EvaluateHeadRetry(t) ==
  IF t.k = "application"
  THEN IF t.left.k = "abstraction" /\ t.left.ptr
       THEN LET s == substitute(t.left.body, t.left.parameter, t.right)
            IN IF s = Panic THEN [kind |-> "panic", term |-> Panic, substituted |-> TRUE]
               ELSE [kind |-> "call", term |-> s, substituted |-> TRUE]
       ELSE IF t.left.k = "variable" /\ t.left.ptr
       THEN [kind |-> "call", term |-> Value(t), substituted |-> FALSE]
       ELSE [kind |-> "panic", term |-> Panic, substituted |-> FALSE]
  ELSE [kind |-> "return", term |-> Value(t), substituted |-> FALSE]

\* a bug: call by value, the argument is evaluated before it is substituted
EvaluateHeadByValue(t) ==
  IF t.k = "application"
  THEN IF t.left.k = "abstraction" /\ t.left.ptr
       THEN LET a == Evaluate(t.right)
                s == IF a = Panic THEN Panic
                     ELSE substitute(t.left.body, t.left.parameter, a)
            IN IF s = Panic THEN [kind |-> "panic", term |-> Panic, substituted |-> TRUE]
               ELSE [kind |-> "call", term |-> s, substituted |-> TRUE]
       ELSE IF t.left.k = "variable" /\ t.left.ptr
       THEN [kind |-> "return", term |-> Value(t), substituted |-> FALSE]
       ELSE [kind |-> "panic", term |-> Panic, substituted |-> FALSE]
  ELSE [kind |-> "return", term |-> Value(t), substituted |-> FALSE]

\* one dispatch of Evaluate on t: it returns a term ("return"), panics
\* ("panic"), or calls Evaluate on the term substitute returned ("call")
EvaluateHead(t) ==
  IF t.k = "application"
  THEN IF t.left.k = "abstraction" /\ t.left.ptr
       THEN LET s == substitute(t.left.body, t.left.parameter, t.right)
            IN IF s = Panic THEN [kind |-> "panic", term |-> Panic, substituted |-> TRUE]
               ELSE [kind |-> "call", term |-> s, substituted |-> TRUE]
       ELSE IF t.left.k = "variable" /\ t.left.ptr
       THEN [kind |-> "return", term |-> Value(t), substituted |-> FALSE]
       ELSE [kind |-> "panic", term |-> Panic, substituted |-> FALSE]
  ELSE [kind |-> "return", term |-> Value(t), substituted |-> FALSE]

RECURSIVE String(_)
String(t) ==
  IF t.k = "variable" THEN t.name
  ELSE IF t.k = "abstraction"
  THEN <<"(", "!">> \o t.parameter \o <<".">> \o String(t.body) \o <<")">>
  ELSE <<"(">> \o String(t.left) \o <<SP>> \o String(t.right) \o <<")">>

\* ----------------------------------------------------------- lane.Stack
\* Push and Prepend insert at the front, Pop removes the front and yields
\* nil on an empty stack.
Push(s, x) == <<x>> \o s
Top(s) == IF s = <<>> THEN Nil ELSE Head(s)
Rest(s) == IF s = <<>> THEN <<>> ELSE Tail(s)

\* ------------------------------------------- parseLambdaExpression
\* The parser's locals: the tokens, the index of the token the range loop
\* is at, the stack, the args stack of the group being closed, the term it
\* returned, and where it is:
\*   "token"  at the head of the range loop       "pop"    in the pop loop
\*   "reduce" after the pop loop                  "return" at the final Pop
\*   "done"   returned term                       "panicked"
NoParser == [pc |-> "none", toks |-> <<>>, i |-> 1, stack |-> <<>>,
             args |-> <<>>, term |-> Nil]

NewParser(expr) ==
  LET tokens == Fields(expr)
  IN [pc |-> IF tokens = <<>> THEN "return" ELSE "token", toks |-> tokens,
      i |-> 1, stack |-> <<>>, args |-> <<>>, term |-> Nil]

\* the range loop moves to the next token, or ends
NextToken(p) ==
  [p EXCEPT !.i = p.i + 1,
            !.pc = IF p.i + 1 > Len(p.toks) THEN "return" ELSE "token"]

Panicked(p) == [p EXCEPT !.pc = "panicked"]

\* a bug: the parser builds an abstraction from a token, here from "y"
StepTokenBinder(p) ==
  LET token == p.toks[p.i]
  IN IF token = LP THEN NextToken([p EXCEPT !.stack = Push(p.stack, Marker)])
     ELSE IF token = RP THEN [p EXCEPT !.args = <<>>, !.pc = "pop"]
     ELSE IF token = <<"y">>
     THEN NextToken([p EXCEPT !.stack = Push(p.stack, PAbstraction(token, PVariable(token)))])
     ELSE NextToken([p EXCEPT !.stack = Push(p.stack, PVariable(token))])

StepToken(p) ==
  LET token == p.toks[p.i]
  IN IF token = LP THEN NextToken([p EXCEPT !.stack = Push(p.stack, Marker)])
     ELSE IF token = RP THEN [p EXCEPT !.args = <<>>, !.pc = "pop"]
     ELSE NextToken([p EXCEPT !.stack = Push(p.stack, PVariable(token))])

\* a bug: the popped entry is appended, so that args is in pop order
PrependAtBack(args, top) ==
  IF top = Nil /\ Len(args) >= MaxNil /\ \A j \in 1..MaxNil : args[j] = Nil
  THEN args
  ELSE args \o <<top>>

\* args.Prepend(top); the list grows without limit while the loop runs on an
\* empty stack, and the model keeps at most MaxNil of the nil entries
Prepend(args, top) ==
  IF top = Nil /\ Len(args) >= MaxNil /\ \A j \in 1..MaxNil : args[j] = Nil
  THEN args
  ELSE <<top>> \o args

\* one iteration of the pop loop
StepPop(p) ==
  LET top == Top(p.stack)
  IN IF top = Marker
     THEN [p EXCEPT !.stack = Rest(p.stack), !.pc = "reduce"]
     ELSE [p EXCEPT !.stack = Rest(p.stack), !.args = Prepend(p.args, top)]

\* the statements after the pop loop
StepReduce(p) ==
  IF Len(p.args) = 1
  THEN NextToken([p EXCEPT !.stack = Push(Rest(p.stack), Top(p.args)),
                           !.args = Rest(p.args)])
  ELSE LET funcExpr == Top(p.stack)
           arg == Top(p.args)
       IN IF ~IsExpression(funcExpr) THEN Panicked(p)
          ELSE IF ~IsExpression(arg) THEN Panicked(p)
          ELSE IF funcExpr.k = "abstraction" /\ funcExpr.ptr
          THEN LET body == substitute(funcExpr.body, funcExpr.parameter, arg)
               IN IF body = Panic THEN Panicked(p)
                  ELSE NextToken([p EXCEPT
                         !.stack = Push(Rest(p.stack),
                                        PAbstraction(funcExpr.parameter, body)),
                         !.args = Rest(p.args)])
          ELSE NextToken([p EXCEPT
                 !.stack = Push(Rest(p.stack), PApplication(funcExpr, arg)),
                 !.args = Rest(p.args)])

\* return stack.Pop().(expression)
StepReturn(p) ==
  IF IsExpression(Top(p.stack))
  THEN [p EXCEPT !.stack = Rest(p.stack), !.term = Top(p.stack), !.pc = "done"]
  ELSE Panicked([p EXCEPT !.stack = Rest(p.stack)])

PStep(p) ==
  IF p.pc = "token" THEN StepToken(p)
  ELSE IF p.pc = "pop" THEN StepPop(p)
  ELSE IF p.pc = "reduce" THEN StepReduce(p)
  ELSE IF p.pc = "return" THEN StepReturn(p)
  ELSE p

\* the parser run on its own for at most n steps
RECURSIVE Run(_, _)
Run(p, n) == IF n = 0 \/ p.pc \in {"done", "panicked"} THEN p ELSE Run(PStep(p), n - 1)

\* steps within which every run on these tokens that ends has ended: a
\* token costs a dispatch and, for a ")", a reduce; an entry is pushed and
\* popped at most once by a loop that ends; a loop that does not end has
\* filled args with MaxNil nil entries after MaxNil more steps
Fuel(tokens) == 4 * Len(tokens) + MaxNil + 4

parseLambdaExpression(expr) == Run(NewParser(expr), Fuel(Fields(expr)))

\* --------------------------------------------------- requests, JSON
\* request.Params as decoded into interface{}: t is the kind of the JSON
\* value; for an object, et is the kind of its "expression" member
\* ("absent" when it has none) and ev the string when that is a string.
JExpression(e) == [t |-> "object", et |-> "string", ev |-> e]
JObjectOther == [t |-> "object", et |-> "absent", ev |-> <<>>]
JObjectNumber == [t |-> "object", et |-> "number", ev |-> <<>>]
JNumber == [t |-> "number", et |-> "absent", ev |-> <<>>]
JNull == [t |-> "null", et |-> "absent", ev |-> <<>>]

Request(id, method, params) == [id |-> id, method |-> method, params |-> params]
Response(id, result) == [id |-> id, result |-> result]

X == Str("x")
Y == Str("y")

\* expressions the clients of the server send
ExprVar == Join(<<X>>)                                    \* "x"
ExprStuck == Join(<<X, LP, X, Y, RP>>)                    \* "x ( x y )"
ExprGroup == Join(<<LP, X, Y, RP>>)                       \* "( x y )"
ExprNested == Join(<<LP, LP, X, RP, RP>>)                 \* "( ( x ) )"
ExprSpine == Join(<<X, LP, Y, Y, RP, LP, Y, Y, RP>>)      \* "x ( y y ) ( y y )"

ServedExprs == {ExprVar, ExprStuck, ExprGroup, ExprNested, ExprSpine}

\* the requests that are answered come with either id; a request that gets
\* no response comes with one id, which nothing reads
AnsweredExprs == {ExprVar, ExprStuck}
ServedRequests ==
  {Request(id, "evaluate", JExpression(e)) : id \in Ids, e \in AnsweredExprs}
  \cup {Request(id, "ping", pa) : id \in Ids, pa \in {JObjectOther, JNumber}}
  \cup {Request(1, "evaluate", pa) :
          pa \in {JExpression(e) : e \in ServedExprs \ AnsweredExprs}
                 \cup {JObjectOther, JObjectNumber, JNumber}}

\* every expression of at most MaxLen tokens over ( ) x y, and some texts
\* that are not a join of tokens by single spaces
TokenAlphabet == {LP, RP, X, Y}
TokenSeqs == UNION {[1..n -> TokenAlphabet] : n \in 0..MaxLen}
ExtraExprs == {<<SP>>, <<SP, SP>>, <<SP, "x", SP, SP, "y", SP>>,
               <<"(", "x", SP, "y", ")">>, ExprSpine}
Inputs == {Join(ts) : ts \in TokenSeqs} \cup ExtraExprs
EvalRequests == {Request(1, "evaluate", JExpression(e)) : e \in Inputs}

\* the terms substitute and Evaluate are applied to on their own: inner
\* nodes are pointers, as every &application{...} and &abstraction{...} of
\* the code makes them; a leaf is a *variable, as the parser makes it, or a
\* variable value, the form the case variable of substitute matches
Names == {X, Y}
Leaves == {PVariable(n) : n \in Names} \cup {Value(PVariable(n)) : n \in Names}
\* the sequence whose i-th entry is the set of the terms of i nodes, i <= n
RECURSIVE TermsBySize(_)
TermsBySize(n) ==
  IF n = 0 THEN <<>>
  ELSE LET s == TermsBySize(n - 1)
       IN Append(s,
            IF n = 1 THEN Leaves
            ELSE {PAbstraction(p, b) : p \in Names, b \in s[n - 1]}
                 \cup UNION {{PApplication(l, r) : l \in s[i], r \in s[n - 1 - i]} :
                              i \in 1..(n - 2)})
TermsUpTo(n) == LET s == TermsBySize(n) IN UNION {s[i] : i \in 1..n}

NoCall == [fn |-> "none", pc |-> "none", expr |-> Nil, v |-> <<>>, value |-> Nil,
           term |-> Nil, n |-> 0, result |-> Nil]
SubstituteCalls ==
  {[fn |-> "substitute", pc |-> "called", expr |-> e, v |-> v, value |-> a,
    term |-> e, n |-> 0, result |-> Nil] :
     e \in TermsUpTo(MaxSubst), v \in Names, a \in TermsUpTo(MaxValue)}
\* longer terms: ((!x.x) ((!y.y) x)), which takes two reductions, and
\* ((!x.(x x)) (!x.(x x))), which reduces to itself
TwoRedexes ==
  PApplication(PAbstraction(X, Value(PVariable(X))),
               PApplication(PAbstraction(Y, Value(PVariable(Y))), Value(PVariable(X))))
SelfApply == PAbstraction(X, PApplication(Value(PVariable(X)), Value(PVariable(X))))
Omega == PApplication(SelfApply, SelfApply)
ExtraTerms == {TwoRedexes, Omega}

EvaluateCalls ==
  {[fn |-> "Evaluate", pc |-> "called", expr |-> e, v |-> <<>>, value |-> Nil,
    term |-> e, n |-> 0, result |-> Nil] : e \in TermsUpTo(MaxSize) \cup ExtraTerms}

\* ------------------------------------------------------------- state
VARIABLES
  call,      \* a call of substitute or Evaluate on its own, and its outcome
  proc,      \* the server process: "running" or "crashed" (unrecovered panic)
  pc,        \* per connection, where its handleConnection goroutine is
  requests,  \* per connection, the requests decoded so far (last = request)
  ps,        \* per connection, the locals of parseLambdaExpression
  out        \* per connection, the responses written to the client

vars == <<proc, pc, requests, ps, out, call>>

Init ==
  /\ proc = "running"
  /\ pc = [c \in Conns |-> "unaccepted"]
  /\ requests = [c \in Conns |-> <<>>]
  /\ ps = [c \in Conns |-> NoParser]
  /\ out = [c \in Conns |-> <<>>]
  /\ call = NoCall

request(c) == requests[c][Len(requests[c])]

RECURSIVE SumLen(_, _)
SumLen(f, n) == IF n = 0 THEN 0 ELSE Len(f[n]) + SumLen(f, n - 1)
TotalDecoded == SumLen(requests, NumConns)

\* main: listener.Accept() and go handleConnection(conn)
Accept(c) ==
  /\ proc = "running"
  /\ pc[c] = "unaccepted"
  /\ pc' = [pc EXCEPT ![c] = "decode"]
  /\ UNCHANGED <<proc, requests, ps, out, call>>

\* decoder.Decode fails: EOF after the client closed, or malformed input
DecodeError(c) ==
  /\ proc = "running"
  /\ pc[c] = "decode"
  /\ pc' = [pc EXCEPT ![c] = "closed"]
  /\ UNCHANGED <<proc, requests, ps, out, call>>

\* a bug: the error of Encode is ignored and the handler loops
EncodeIgnored(c, response, ok) ==
  IF ok
  THEN /\ out' = [out EXCEPT ![c] = Append(@, response)]
       /\ pc' = [pc EXCEPT ![c] = "decode"]
  ELSE /\ out' = out
       /\ pc' = [pc EXCEPT ![c] = "decode"]

\* encoder.Encode(response) on connection c: the response reaches the client
\* and the handler loops, or the write fails (the client is gone) and the
\* handler returns
Encode(c, response, ok) ==
  IF ok
  THEN /\ out' = [out EXCEPT ![c] = Append(@, response)]
       /\ pc' = [pc EXCEPT ![c] = "decode"]
  ELSE /\ out' = out
       /\ pc' = [pc EXCEPT ![c] = "writeFailed"]

\* a bug: the handler goes on to the next request after invalid params
AfterInvalidParamsContinue == "decode"

\* where the handler goes on invalid params: return, the deferred conn.Close()
AfterInvalidParams == "closed"

\* decoder.Decode yields request r; the locals of the previous iteration are
\* gone; the method dispatch, the two type
\* assertions on the params and the tokenizing of the expression
Decode(c, r) ==
  /\ proc = "running"
  /\ pc[c] = "decode"
  /\ requests' = [requests EXCEPT ![c] = Append(@, r)]
  /\ IF r.method = "evaluate"
     THEN IF r.params.t = "object" /\ r.params.et = "string"
          THEN /\ pc' = [pc EXCEPT ![c] = "parse"]
               /\ ps' = [ps EXCEPT ![c] = NewParser(r.params.ev)]
          ELSE /\ pc' = [pc EXCEPT ![c] = AfterInvalidParams]
               /\ ps' = [ps EXCEPT ![c] = NoParser]
     ELSE /\ pc' = [pc EXCEPT ![c] = "echo"]
          /\ ps' = [ps EXCEPT ![c] = NoParser]
  /\ UNCHANGED <<proc, out, call>>

\* the parser of connection c moves to q: a panic is not recovered and
\* ends the process, a returned term takes the handler to Evaluate
ParserMoves(c, q) ==
  /\ ps' = [ps EXCEPT ![c] = q]
  /\ pc' = [pc EXCEPT ![c] = IF q.pc = "panicked" THEN "panicked"
                             ELSE IF q.pc = "done" THEN "evaluate" ELSE "parse"]
  /\ proc' = IF q.pc = "panicked" THEN "crashed" ELSE proc
  /\ UNCHANGED <<requests, out, call>>

ParseToken(c) ==
  /\ proc = "running" /\ pc[c] = "parse" /\ ps[c].pc = "token"
  /\ ParserMoves(c, StepToken(ps[c]))

PopLoop(c) ==
  /\ proc = "running" /\ pc[c] = "parse" /\ ps[c].pc = "pop"
  /\ ParserMoves(c, StepPop(ps[c]))

Reduce(c) ==
  /\ proc = "running" /\ pc[c] = "parse" /\ ps[c].pc = "reduce"
  /\ ParserMoves(c, StepReduce(ps[c]))

Return(c) ==
  /\ proc = "running" /\ pc[c] = "parse" /\ ps[c].pc = "return"
  /\ ParserMoves(c, StepReturn(ps[c]))

\* the whole call parseLambdaExpression(expression) of the handler of c: the
\* parser reads and writes nothing but its own locals, so its steps need
\* not be interleaved with those of the other handlers; a call that never
\* returns leaves the handler inside the pop loop
Parse(c) ==
  /\ proc = "running" /\ pc[c] = "parse"
  /\ ParserMoves(c, Run(ps[c], Fuel(ps[c].toks)))

\* a bug: the request is kept in a variable the handlers share
EvaluateResponseShared(c, result) ==
  LET others == {d \in Conns : d # c /\ requests[d] # <<>>}
      d == IF others = {} THEN c ELSE CHOOSE e \in others : TRUE
  IN Response(request(d).id, JExpression(String(result)))

\* the response of an evaluate request whose evaluation gave result
EvaluateResponse(c, result) == Response(request(c).id, JExpression(String(result)))

\* express.Evaluate(), result.String(), encoder.Encode(response)
EvaluateRespond(c) ==
  /\ proc = "running" /\ pc[c] = "evaluate"
  /\ LET result == Evaluate(ps[c].term)
     IN IF result = Panic
        THEN /\ proc' = "crashed"
             /\ pc' = [pc EXCEPT ![c] = "panicked"]
             /\ UNCHANGED <<ps, out>>
        ELSE /\ proc' = proc
             /\ ps' = ps
             /\ \E ok \in BOOLEAN : Encode(c, EvaluateResponse(c, result), ok)
  /\ UNCHANGED <<requests, call>>

\* a bug: the result of the pass-through response is left unset
EchoResponseNull(c) == Response(request(c).id, JNull)

\* the response of a request of any other method
EchoResponse(c) == Response(request(c).id, request(c).params)

\* the else branch: encoder.Encode of the pass-through response
Echo(c) ==
  /\ proc = "running" /\ pc[c] = "echo"
  /\ \E ok \in BOOLEAN : Encode(c, EchoResponse(c), ok)
  /\ UNCHANGED <<proc, requests, ps, call>>

\* a client's next request reaches the handler
Receive(c) == TotalDecoded < MaxReq /\ \E r \in ServedRequests : Decode(c, r)

Next ==
  \E c \in Conns :
    \/ Accept(c)
    \/ DecodeError(c)
    \/ Receive(c)
    \/ Parse(c)
    \/ EvaluateRespond(c)
    \/ Echo(c)

\* the server with its clients; a handler's parse is one step
Spec == Init /\ [][Next]_vars

\* one evaluate request on one connection, over every input, the parser
\* taken step by step
ReceiveOne(c) == requests[c] = <<>> /\ \E r \in EvalRequests : Decode(c, r)

NextEval ==
  \/ Accept(1)
  \/ ReceiveOne(1)
  \/ ParseToken(1)
  \/ PopLoop(1)
  \/ Reduce(1)
  \/ Return(1)
  \/ EvaluateRespond(1)

SpecEval == Init /\ [][NextEval]_vars

\* substitute(expr, v, value) called on its own
Substitute ==
  /\ call.fn = "substitute" /\ call.pc = "called"
  /\ LET r == substitute(call.expr, call.v, call.value)
     IN call' = [call EXCEPT !.pc = IF r = Panic THEN "panicked" ELSE "returned",
                             !.result = r]
  /\ UNCHANGED <<proc, pc, requests, ps, out>>

\* one dispatch of Evaluate on the term the evaluation has reached; the
\* model follows at most MaxSteps reductions
EvaluateStep ==
  /\ call.fn = "Evaluate" /\ call.pc = "called"
  /\ LET h == EvaluateHead(call.term)
     IN IF h.kind = "call"
        THEN /\ call.n < MaxSteps
             /\ call' = [call EXCEPT !.term = h.term, !.n = call.n + 1]
        ELSE call' = [call EXCEPT !.pc = IF h.kind = "panic" THEN "panicked" ELSE "returned",
                                  !.result = h.term]
  /\ UNCHANGED <<proc, pc, requests, ps, out>>

InitTerm ==
  /\ proc = "running"
  /\ pc = [c \in Conns |-> "unaccepted"]
  /\ requests = [c \in Conns |-> <<>>]
  /\ ps = [c \in Conns |-> NoParser]
  /\ out = [c \in Conns |-> <<>>]
  /\ \/ call \in SubstituteCalls
     \/ call \in EvaluateCalls

NextTerm ==
  \/ Substitute
  \/ EvaluateStep

\* substitute and Evaluate on their own, over every term of the bounds
SpecTerm == InitTerm /\ [][NextTerm]_vars

\* ------------------------------------------------------- properties
Last(q) == q[Len(q)]

\* connection c is handling, or has handled last, an evaluate request
\* whose params passed the two type assertions
Evaluating(c) ==
  /\ requests[c] # <<>>
  /\ request(c).method = "evaluate"
  /\ request(c).params.t = "object"
  /\ request(c).params.et = "string"

expression(c) == request(c).params.ev

\* the handler of c has left the request it decoded last
Finished(c) ==
  requests[c] # <<>> /\ pc[c] \in {"decode", "closed", "writeFailed", "panicked"}

\* the pop loop has popped from an empty stack: it never sees the marker
Diverging(p) == p.pc = "pop" /\ \E j \in 1..Len(p.args) : p.args[j] = Nil

SameNode(a, b) == a.k = b.k /\ a.left = b.left /\ a.right = b.right

\* C1: the expression "( x y )" parses to Application(Variable x,
\* Variable y), evaluate returns that term unchanged, and the response
\* carries the printed result "(x y)".
C1_GroupEvaluates ==
  \A c \in Conns :
    (Evaluating(c) /\ expression(c) = ExprGroup) =>
      /\ pc[c] # "panicked"
      /\ pc[c] = "evaluate" =>
           /\ ps[c].term = PApplication(PVariable(X), PVariable(Y))
           /\ SameNode(Evaluate(ps[c].term), ps[c].term)
      /\ Finished(c) =>
           out[c] = <<Response(request(c).id,
                               JExpression(<<"(", "x", " ", "y", ")">>))>>

\* the token sequence ts parses to exactly one Term: the parser returns a
\* Term and that Term was the only entry left on the stack
ParsesToOne(ts) ==
  LET r == parseLambdaExpression(Join(ts))
  IN r.pc = "done" /\ r.stack = <<>>

\* C2: singleton-parenthesis law: when s parses to exactly one Term, the
\* parse of "( s )" terminates and returns the same Term as the parse of s;
\* "( ( x ) )" is answered with "x".
C2_SingletonParenthesis ==
  \A c \in Conns :
    Evaluating(c) =>
      LET ts == ps[c].toks
          s == SubSeq(ts, 2, Len(ts) - 1)
      IN /\ (Len(ts) >= 2 /\ ts[1] = LP /\ ts[Len(ts)] = RP /\ ParsesToOne(s)) =>
              /\ ~Diverging(ps[c])
              /\ pc[c] # "panicked"
              /\ ps[c].pc = "done" =>
                   ps[c].term = parseLambdaExpression(Join(s)).term
         /\ (expression(c) = ExprNested /\ Finished(c)) =>
              out[c] = <<Response(request(c).id, JExpression(X))>>

\* C3: at the end of input the parser returns a Term only if that Term was
\* the only entry on the stack; with any other final stack the parse fails
\* without returning a Term and without crashing the process.
C3_EndOfInput ==
  \A c \in Conns :
    Evaluating(c) =>
      /\ ps[c].pc = "done" => ps[c].stack = <<>>
      /\ (ps[c].pc = "panicked" /\ ps[c].toks # <<>> /\ ps[c].i > Len(ps[c].toks)) =>
           proc = "running"

\* C4: an expression without tokens is rejected with a recoverable error:
\* no Term is returned and the process and the other requests go on.
C4_EmptyInput ==
  \A c \in Conns :
    (Evaluating(c) /\ Fields(expression(c)) = <<>>) =>
      /\ ps[c].pc # "done"
      /\ pc[c] # "panicked"
      /\ proc = "running"

\* C5: a ")" processed with no open-paren marker on the stack stops the pop
\* loop when the stack becomes empty: the loop never goes on after Pop has
\* yielded nil, so the parser terminates.
C5_PopLoopStops ==
  \A c \in Conns : ~Diverging(ps[c])

\* the expressions of the served requests, each parsed with no other
\* request in the system
AloneParses == [e \in ServedExprs |-> parseLambdaExpression(e)]
AloneParse(r) ==
  IF r.params.ev \in ServedExprs THEN AloneParses[r.params.ev]
  ELSE parseLambdaExpression(r.params.ev)
EvaluatesAlone(r) ==
  /\ r.method = "evaluate" /\ r.params.t = "object" /\ r.params.et = "string"
  /\ LET p == AloneParse(r) IN p.pc = "done" /\ Evaluate(p.term) # Panic
AloneResponse(r) ==
  Response(r.id, JExpression(String(Evaluate(AloneParse(r).term))))

AllEvaluateAlone ==
  \A d \in Conns : \A i \in 1..Len(requests[d]) : EvaluatesAlone(requests[d][i])

\* C6: with evaluate requests handled concurrently on separate connections,
\* every response a connection receives carries the id of its own request
\* and the printed evaluation of its own expression alone; while every
\* request in the system evaluates on its own, no handler is crashed or
\* stuck by another and every handled request has its response.
C6_OwnResult ==
  /\ \A c \in Conns : \A i \in 1..Len(out[c]) :
       requests[c][i].method = "evaluate" =>
         /\ EvaluatesAlone(requests[c][i])
         /\ out[c][i] = AloneResponse(requests[c][i])
  /\ AllEvaluateAlone =>
       \A c \in Conns :
         /\ proc = "running"
         /\ ~Diverging(ps[c])
         /\ pc[c] = "decode" => Len(out[c]) = Len(requests[c])

\* two connections with distinct expressions, each answered with its own
C6_Witness ==
  /\ Len(requests[1]) = 1 /\ Len(requests[2]) = 1
  /\ requests[1][1] = Request(1, "evaluate", JExpression(ExprVar))
  /\ requests[2][1] = Request(2, "evaluate", JExpression(ExprStuck))
  /\ out[1] = <<Response(1, JExpression(X))>>
  /\ out[2] = <<Response(2, JExpression(<<"(", "x", " ", "x", ")">>))>>

Active == {"decode", "parse", "evaluate", "echo"}

\* C7: a fault raised while handling a request on one connection aborts only
\* that connection: every other connection that was open stays open, its
\* handler running in a running process.
C7_FaultIsolation ==
  \A c, d \in Conns :
    (c # d /\ pc[c] = "panicked" /\ pc[d] \in Active) => proc = "running"

\* C8: a request of a method other than "evaluate" is answered with exactly
\* one response, carrying the request's id and its params unchanged; nothing
\* is parsed or evaluated, and the connection stays open for the next
\* request (unless the write of the response fails: the client is gone).
C8_PassThroughState ==
  \A c \in Conns :
    /\ Len(out[c]) <= Len(requests[c])
    /\ \A i \in 1..Len(out[c]) :
         requests[c][i].method # "evaluate" =>
           out[c][i] = Response(requests[c][i].id, requests[c][i].params)
    /\ (requests[c] # <<>> /\ request(c).method # "evaluate") =>
         /\ pc[c] \in {"echo", "decode", "closed", "writeFailed"}
         /\ ps[c] = NoParser
         /\ pc[c] = "decode" => Len(out[c]) = Len(requests[c])

C8_PassThroughStep ==
  \A c \in Conns :
    (pc[c] = "echo" /\ pc'[c] \notin {"echo", "writeFailed"}) =>
      /\ pc'[c] = "decode"
      /\ out'[c] = Append(out[c], Response(request(c).id, request(c).params))

C8_PassThrough == [][C8_PassThroughState' /\ C8_PassThroughStep]_vars

\* a pass-through request was answered and the next request was decoded
C8_Witness ==
  /\ Len(requests[1]) = 2
  /\ requests[1][1] = Request(1, "ping", JObjectOther)
  /\ Len(out[1]) >= 1
  /\ out[1][1] = Response(1, JObjectOther)

InvalidParams(r) ==
  r.method = "evaluate" /\ ~(r.params.t = "object" /\ r.params.et = "string")

\* C9: an "evaluate" request whose params is not an object, or whose
\* expression is missing or not a string, gets no response and ends the
\* connection: it is the last request decoded on it, and nothing is parsed.
C9_InvalidParams ==
  \A c \in Conns : \A i \in 1..Len(requests[c]) :
    InvalidParams(requests[c][i]) =>
      /\ i = Len(requests[c])
      /\ Len(out[c]) = i - 1
      /\ pc[c] = "closed"
      /\ ps[c] = NoParser

\* an answered request followed by one with invalid params
C9_Witness ==
  /\ Len(requests[1]) = 2
  /\ InvalidParams(requests[1][2])
  /\ Len(out[1]) = 1
  /\ pc[1] = "closed"

\* the parser of c returned an Application whose left child is a Variable
StuckTerm(c) ==
  /\ Evaluating(c)
  /\ ps[c].pc = "done"
  /\ ps[c].term.k = "application"
  /\ ps[c].term.left.k = "variable"

\* C10: stuck-application law: evaluate of an Application whose left child
\* is a Variable returns the Application with the same left and right
\* children, evaluate of that result returns it again, and the response
\* carries the printed Application.
C10_StuckApplication ==
  \A c \in Conns :
    StuckTerm(c) =>
      LET t == ps[c].term
          r == Evaluate(t)
      IN /\ r # Panic
         /\ r.k = "application" /\ r.left = t.left /\ r.right = t.right
         /\ Evaluate(r) = r
         /\ pc[c] # "panicked"
         /\ pc[c] = "decode" =>
              Last(out[c]) = Response(request(c).id, JExpression(String(t)))

\* "x ( x y )" was parsed to a stuck Application, evaluated and answered
C10_Witness ==
  /\ StuckTerm(1)
  /\ ps[1].term = PApplication(PVariable(X), PVariable(X))
  /\ pc[1] = "decode"
  /\ out[1] = <<Response(1, JExpression(<<"(", "x", " ", "x", ")">>))>>

\* a call of substitute on its own has ended
Substituted == call.fn = "substitute" /\ call.pc # "called"

\* C11: shadow law: substitute(Abstraction(p, body), p, value) returns the
\* Abstraction unchanged, whatever body and value are, and does not go
\* into body (so it returns even where substitute panics on body).
C11_ShadowLaw ==
  (Substituted /\ call.expr.k = "abstraction" /\ call.expr.parameter = call.v) =>
     /\ call.pc = "returned"
     /\ call.result = call.expr

\* substitute((!x.x), x, y) returned (!x.x), the body x being a *variable,
\* on which substitute itself panics
C11_Witness ==
  /\ Substituted
  /\ call.expr = PAbstraction(X, PVariable(X))
  /\ call.v = X
  /\ call.value = PVariable(Y)
  /\ call.result = call.expr
  /\ substitute(call.expr.body, X, call.value) = Panic

\* the tokens are variables, then one group of two or more variables:
\* v1 ... vk ( a1 ... an ), and the parser returned a term for them
IsName(token) == token # LP /\ token # RP
FlatGroup(p) ==
  /\ p.pc = "done"
  /\ Len(p.toks) >= 5
  /\ p.toks[Len(p.toks)] = RP
  /\ \E o \in 2..(Len(p.toks) - 3) :
       /\ p.toks[o] = LP
       /\ \A j \in 1..(Len(p.toks) - 1) : j # o => IsName(p.toks[j])
OpenAt(p) == CHOOSE o \in 1..Len(p.toks) : p.toks[o] = LP

\* C12 as the spec states it: the Application pushed for a group of two or
\* more entries takes the LAST element of the group as its argument.
C12_LastOfGroup ==
  \A c \in Conns :
    FlatGroup(ps[c]) =>
      ps[c].term = PApplication(PVariable(ps[c].toks[OpenAt(ps[c]) - 1]),
                                PVariable(ps[c].toks[Len(ps[c].toks) - 1]))

\* C12, amended: when ")" closes a group of two or more entries, the parser
\* pops the entry before the "(" as funcExpr and pushes
\* Application(funcExpr, a) where a is the FIRST element of the group in
\* input order; the later elements are discarded ("y ( x y )" parses to
\* Application(y, x)).
C12_FirstOfGroup ==
  \A c \in Conns :
    FlatGroup(ps[c]) =>
      ps[c].term = PApplication(PVariable(ps[c].toks[OpenAt(ps[c]) - 1]),
                                PVariable(ps[c].toks[OpenAt(ps[c]) + 1]))

\* "y ( x y )" was parsed to Application(y, x)
C12_Witness ==
  /\ FlatGroup(ps[1])
  /\ ps[1].toks = <<Y, LP, X, Y, RP>>
  /\ ps[1].term = PApplication(PVariable(Y), PVariable(X))

\* the parser of c is after the pop loop of a one-element group, the
\* marker popped, and takes its next step
ClosesSingleton(c) ==
  /\ ps[c].pc = "reduce"
  /\ Len(ps[c].args) = 1
  /\ ps'[c] # ps[c]

\* C13: a ")" that closes a one-element group removes only that element and
\* its marker and pushes the element back: the entries below the marker are
\* left unchanged (after "f ( x )" the stack holds f then x).
C13_SingletonFrame ==
  [][\A c \in Conns :
       ClosesSingleton(c) => ps'[c].stack = Push(ps[c].stack, ps[c].args[1])]_vars

\* C14: substitute is total: for every term built from Variable,
\* Abstraction and Application nodes, the Variable and Application nodes
\* as the parser builds them included, it returns a term and never faults.
C14_SubstituteTotal ==
  Substituted =>
    /\ call.pc = "returned"
    /\ IsExpression(call.result)

\* a call of Evaluate on its own
Evaluated == call.fn = "Evaluate"

\* the head of t is an Abstraction applied to an argument
IsRedex(t) == t.k = "application" /\ t.left.k = "abstraction"

\* the term n head reductions of t lead to, the argument substituted as it
\* stands; Panic where a substitution panics
RECURSIVE Reduct(_, _)
Reduct(t, n) ==
  IF n = 0 \/ t = Panic THEN t
  ELSE IF IsRedex(t)
  THEN Reduct(substitute(t.left.body, t.left.parameter, t.right), n - 1)
  ELSE Panic

\* C15: evaluate of an Application whose left child is an Abstraction is
\* evaluate of substitute(left.body, left.parameter, right), the right
\* child passed as it stands (call-by-name), again and again until the head
\* is no longer an Abstraction; evaluate of a Variable or an Abstraction
\* returns it unchanged. Where substitute panics, so does the evaluation.
C15_HeadReduction ==
  Evaluated =>
    /\ call.term = Reduct(call.expr, call.n)
    /\ call.pc = "returned" =>
         /\ ~IsRedex(call.term)
         /\ call.term.k \in {"variable", "abstraction"} =>
              call.result = Value(call.term)
    /\ (call.pc = "panicked" /\ IsRedex(call.term)) =>
         Reduct(call.term, 1) = Panic
    /\ (call.pc = "returned" /\ call.n = 0 /\ call.expr.k = "variable") =>
         (call.result.k = "variable" /\ call.result.name = call.expr.name)
    /\ (call.pc = "returned" /\ call.n = 0 /\ call.expr.k = "abstraction") =>
         /\ call.result.k = "abstraction"
         /\ call.result.parameter = call.expr.parameter
         /\ call.result.body = call.expr.body

\* ((!x.x) ((!y.y) x)) took two reductions: the argument ((!y.y) x) was
\* substituted as it stood, became the term evaluated, and reduced to x
C15_Witness ==
  /\ Evaluated
  /\ call.expr = TwoRedexes
  /\ call.n = 2
  /\ call.pc = "returned"
  /\ call.result = Value(PVariable(X))

\* the parser of c returned an Application whose left child is an
\* Application
SpineTerm(c) ==
  /\ Evaluating(c)
  /\ ps[c].pc = "done"
  /\ ps[c].term.k = "application"
  /\ ps[c].term.left.k = "application"

\* C16: evaluate of an Application whose left child is an Application
\* raises a fault: the left spine is not reduced first, no term is
\* returned and no response is written.
C16_SpineFault ==
  \A c \in Conns :
    SpineTerm(c) =>
      /\ Evaluate(ps[c].term) = Panic
      /\ EvaluateHead(ps[c].term).kind = "panic"
      /\ ~EvaluateHead(ps[c].term).substituted
      /\ pc[c] \in {"evaluate", "panicked"}
      /\ out[c] = <<>>
      /\ pc[c] = "panicked" => proc = "crashed"

\* "x ( y y ) ( y y )" was parsed to Application(Application(x, y), y) and
\* its evaluation panicked
C16_Witness ==
  /\ SpineTerm(1)
  /\ expression(1) = ExprSpine
  /\ ps[1].term = PApplication(PApplication(PVariable(X), PVariable(Y)), PVariable(Y))
  /\ pc[1] = "panicked"

\* no Abstraction occurs in t
RECURSIVE NoAbstraction(_)
NoAbstraction(t) ==
  IF t.k = "variable" THEN t.ptr
  ELSE IF t.k = "application"
  THEN t.ptr /\ NoAbstraction(t.left) /\ NoAbstraction(t.right)
  ELSE FALSE

\* x is a marker, or a Variable or Application as the parser builds them
\* with no Abstraction inside
ParserEntry(x) == x = Marker \/ NoAbstraction(x)

\* the parser is about to choose between the abstraction branch and the
\* application branch
AtBranch(p) == p.pc = "reduce" /\ Len(p.args) # 1

\* C17: in every state of the parser each stack entry is a marker, a
\* Variable or an Application, and no term on the stack, in args or
\* returned contains an Abstraction; so the abstraction branch is never
\* taken and the parser never calls substitute.
C17_NoAbstraction ==
  \A c \in Conns :
    LET p == ps[c]
    IN /\ \A j \in 1..Len(p.stack) : ParserEntry(p.stack[j])
       /\ \A j \in 1..Len(p.args) : p.args[j] = Nil \/ NoAbstraction(p.args[j])
       /\ p.pc = "done" => NoAbstraction(p.term)
       /\ AtBranch(p) => Top(p.stack).k # "abstraction"

\* the parser chose the application branch for the second group of
\* "x ( y y ) ( y y )", with the Application of the first group as funcExpr
C17_Witness ==
  /\ AtBranch(ps[1])
  /\ ps[1].toks = Fields(ExprSpine)
  /\ ps[1].i = 9
  /\ ps[1].stack = <<PApplication(PVariable(X), PVariable(Y))>>
  /\ ps[1].args = <<PVariable(Y), PVariable(Y)>>

\* the parser of c returned a term for the expression of the request
Parsed(c) == Evaluating(c) /\ ps[c].pc = "done"

\* C18: for every input on which the parser returns a term, evaluation
\* ends: one dispatch on the head returns a term or panics, there is no
\* substitution and no further call of Evaluate, and the handler leaves
\* the evaluator for the response or the panic.
C18_OneDispatch ==
  \A c \in Conns :
    Parsed(c) =>
      LET h == EvaluateHead(ps[c].term)
      IN /\ h.kind \in {"return", "panic"}
         /\ ~h.substituted
         /\ Evaluate(ps[c].term) = h.term
         /\ pc[c] \in {"evaluate", "decode", "writeFailed", "panicked"}
         /\ (pc[c] = "panicked") = (h.kind = "panic" /\ pc[c] # "evaluate")

\* "y ( y x )" was parsed, evaluated by one dispatch and answered
C18_Witness ==
  /\ Parsed(1)
  /\ ps[1].toks = <<Y, LP, Y, X, RP>>
  /\ EvaluateHead(ps[1].term) = [kind |-> "return", term |-> Value(ps[1].term),
                                 substituted |-> FALSE]
  /\ pc[1] = "decode"
  /\ Len(out[1]) = 1

\* the handler of c holds a request it has decoded and not yet answered
InHand(c) == pc[c] \in {"parse", "evaluate", "echo"}

\* C19: on one connection the requests are handled one at a time in the
\* order they arrive: a request is decoded only when every request before
\* it has its response written, a handled request has exactly one response,
\* with the id of that request, and the responses are in the order of the
\* requests.
C19_OneAtATime ==
  \A c \in Conns :
    /\ Len(out[c]) <= Len(requests[c])
    /\ Len(requests[c]) <= Len(out[c]) + 1
    /\ pc[c] = "decode" => Len(out[c]) = Len(requests[c])
    /\ InHand(c) => Len(requests[c]) = Len(out[c]) + 1
    /\ \A i \in 1..Len(out[c]) : out[c][i].id = requests[c][i].id

\* connection 1 took the request with id 2, answered it, then took the
\* request with id 1 and answered it
C19_Witness ==
  /\ Len(requests[1]) = 2
  /\ requests[1][1].id = 2 /\ requests[1][2].id = 1
  /\ Len(out[1]) = 2
  /\ out[1][1].id = 2 /\ out[1][2].id = 1
  /\ pc[1] = "decode"

====
